---- MODULE Spec2Model ----
(***************************************************************************)
(* Model of iris/io/class_configs.py: the immutable configuration record   *)
(* (ImmutableModel), the pipeline node base class (Algorithm) with its     *)
(* hook-instrumented execute protocol, and instantiate_class_from_name.    *)
(***************************************************************************)
EXTENDS Integers, Sequences, FiniteSets, TLC

(* ------------------------------ bounds -------------------------------- *)

\* Longest hook sequence the caller ever holds.
MaxHooks == 2

(* ------------------------------ values -------------------------------- *)

\* Python values are tagged so that an int, a str and a list stay distinct.
IntV(k) == [t |-> "int", n |-> k, s |-> ""]
StrV(x) == [t |-> "str", n |-> 0, s |-> x]
ListV(ref) == [t |-> "list", n |-> 0, s |-> ref]
Absent == [t |-> "absent", n |-> 0, s |-> ""]
NoneV == [t |-> "None", n |-> 0, s |-> ""]

\* Exceptions: the Python exception type, the name the message carries and
\* the operation the message mentions.
Exc(kind, name, what) == [kind |-> kind, name |-> name, what |-> what]
NoExc == Exc("none", "", "")

(* ------------------------ ImmutableModel.Config ------------------------ *)

allow_mutation_on == TRUE
allow_mutation == FALSE

validate_all_off == FALSE
validate_all == TRUE

extra == "ignore"

(* ------------------ node types known to the interpreter ---------------- *)

\* Algorithm itself, and three subclasses: Stub overrides nothing, Adder
\* declares `increment: int = 1` and overrides run, BadDefault declares
\* `increment: int = "x"` (a default that is no int) and overrides run.
Classes == {"Algorithm", "Stub", "Adder", "BadDefault"}

FieldNames == {"increment"}

\* __parameters_type__: the configuration record type a node type declares.
parameters_type(cls) ==
    CASE cls = "Adder" -> "AdderParameters"
      [] cls = "BadDefault" -> "BadDefaultParameters"
      [] OTHER -> "Parameters"

ParameterTypes == {parameters_type(c) : c \in Classes}

\* The declared fields of a configuration record type.
Fields(ptype) ==
    IF ptype \in {"AdderParameters", "BadDefaultParameters"}
    THEN {"increment"} ELSE {}

FieldType(ptype, f) == "int"

FieldDefault(ptype, f) ==
    IF ptype = "AdderParameters" THEN IntV(1) ELSE StrV("x")

\* Whether a node type overrides run.
OverridesRun(cls) == cls \in {"Adder", "BadDefault"}

(* --------------------------- pydantic model ---------------------------- *)

\* int(v) for the strings of the model: a decimal string parses, others do not.
ParsesAsInt(x) == x \in {"1", "3"}
ParseInt(x) == IF x = "1" THEN 1 ELSE 3

\* A field validator: [ok, v], v the coerced value.
validate_field(type, v) ==
    CASE type = "int" /\ v.t = "int" -> [ok |-> TRUE, v |-> v]
      [] type = "int" /\ v.t = "str" /\ ParsesAsInt(v.s) ->
            [ok |-> TRUE, v |-> IntV(ParseInt(v.s))]
      [] OTHER -> [ok |-> FALSE, v |-> v]

\* The value a declared field ends up with, before it is checked.
field_input(ptype, kw, f) ==
    IF kw[f] # Absent THEN kw[f] ELSE FieldDefault(ptype, f)

\* Whether field f is run through its validator: a supplied value always,
\* a default only under validate_all.
field_checked(ptype, kw, f) == kw[f] # Absent \/ validate_all

field_value(ptype, kw, f) ==
    IF field_checked(ptype, kw, f)
    THEN validate_field(FieldType(ptype, f), field_input(ptype, kw, f)).v
    ELSE field_input(ptype, kw, f)

field_fails(ptype, kw, f) ==
    /\ field_checked(ptype, kw, f)
    /\ ~validate_field(FieldType(ptype, f), field_input(ptype, kw, f)).ok

\* Every attribute name the model uses: the reserved hook key, the declared
\* field and a name no record type declares.
Keys == {"callbacks", "increment", "unknown"}

NoFields == [k \in Keys |-> Absent]

\* The keyword arguments that are no declared field of ptype.
extra_keys(ptype, kw) == {k \in Keys : kw[k] # Absent /\ k \notin Fields(ptype)}

\* pydantic.BaseModel.__init__ under ImmutableModel.Config: every declared
\* field is validated (a default too, validate_all), undeclared keys are
\* dropped (Extra.ignore), and any failure raises ValidationError.
ParametersInit(ptype, kw) ==
    IF \/ \E f \in Fields(ptype) : field_fails(ptype, kw, f)
       \/ extra = "forbid" /\ extra_keys(ptype, kw) # {}
    THEN [ok |-> FALSE, fields |-> NoFields,
          err |-> Exc("ValidationError", ptype, "__init__")]
    ELSE [ok |-> TRUE,
          fields |-> [k \in Keys |->
                        IF k \in Fields(ptype) THEN field_value(ptype, kw, k)
                        ELSE IF extra = "allow" THEN kw[k] ELSE Absent],
          err |-> NoExc]

\* pydantic.BaseModel.__setattr__ under ImmutableModel.Config: [fields, err].
setattr(ptype, fields, name, value) ==
    IF extra # "allow" /\ name \notin Fields(ptype)
    THEN [fields |-> fields, err |-> Exc("ValueError", ptype, name)]
    ELSE IF ~allow_mutation
    THEN [fields |-> fields, err |-> Exc("TypeError", ptype, name)]
    ELSE [fields |-> [fields EXCEPT ![name] = value], err |-> NoExc]

\* ImmutableModel.serialize: names the class of the instance.
serialize(ptype) == Exc("RuntimeError", ptype, "serialize")

\* ImmutableModel.deserialize: a static method, it names ImmutableModel.
deserialize(ptype, data) == Exc("RuntimeError", "ImmutableModel", "deserialize")

(* ------------------------------- heap ---------------------------------- *)

\* Hook objects have identity: a reference is an owner and an id. The caller
\* holds two hook objects; a deep copy made for a node is owned by that node.
HookIds == {"h1", "h2"}
Owners == {"caller", "node", "located"}
HookRefs == [owner : Owners, id : HookIds]
CallerRefs == {r \in HookRefs : r.owner = "caller"}

\* What a hook object does when called: nothing, or raise in
\* on_execute_start, or raise in on_execute_end.
Behaviours == {"ok", "raise_on_start", "raise_on_end"}

\* Lists have identity too: "S" is the caller's hook sequence, "node" and
\* "located" are the lists the two instances create for themselves.
ListRefs == {"S", "node", "located"}

Range(q) == {q[k] : k \in DOMAIN q}

\* copy.copy of a list: a new list holding the same objects.
shallow_copy(heap, src, owner) ==
    [lists |-> [heap.lists EXCEPT ![owner] = heap.lists[src]],
     hooks |-> heap.hooks,
     ref |-> owner]

\* copy.deepcopy of the list src: a new list of new objects, one per
\* distinct object of src (the memo keeps aliasing), each with the state
\* its original has now.
deepcopy(heap, src, owner) ==
    LET old == heap.lists[src]
        orig(id) == CHOOSE r \in Range(old) : r.id = id
    IN [lists |-> [heap.lists EXCEPT
                     ![owner] = [k \in DOMAIN old |->
                                   [owner |-> owner, id |-> old[k].id]]],
        hooks |-> [r \in HookRefs |->
                     IF r.owner = owner
                     THEN IF \E o \in Range(old) : o.id = r.id
                          THEN heap.hooks[orig(r.id)] ELSE "unalloc"
                     ELSE heap.hooks[r]],
        ref |-> owner]

(* ----------------------------- Algorithm ------------------------------- *)

NoNode ==
    [state |-> "none", cls |-> "", callbacks |-> "", params |-> NoFields,
     err |-> NoExc, forwarded |-> NoFields]

\* `del kwargs["callbacks"]`.
del_callbacks(kwargs) == [kwargs EXCEPT !["callbacks"] = Absent]

\* Algorithm.__init__ run for a new instance `owner` of cls: [heap, node].
\* A failed construction leaves no instance; what it allocated is garbage.
Algorithm__init__(cls, kwargs, heap, owner) ==
    LET empty == [lists |-> [heap.lists EXCEPT ![owner] = <<>>],
                  hooks |-> heap.hooks, ref |-> owner]
        has == kwargs["callbacks"] # Absent
        copied == IF has THEN deepcopy(empty, kwargs["callbacks"].s, owner)
                  ELSE empty
        rest == IF has THEN del_callbacks(kwargs) ELSE kwargs
        made == ParametersInit(parameters_type(cls), rest)
    IN IF made.ok
       THEN [heap |-> [lists |-> copied.lists, hooks |-> copied.hooks],
             node |-> [state |-> "ok", cls |-> cls, callbacks |-> copied.ref,
                       params |-> made.fields, err |-> NoExc,
                       forwarded |-> rest]]
       ELSE [heap |-> heap,
             node |-> [state |-> "failed", cls |-> cls, callbacks |-> "",
                       params |-> NoFields, err |-> made.err,
                       forwarded |-> rest]]

\* Algorithm.run, and the run of the subclasses that override it (Adder and
\* BadDefault add their increment to the argument): [ok, v, err].
run(cls, params, a) ==
    IF ~OverridesRun(cls)
    THEN [ok |-> FALSE, v |-> NoneV, err |-> Exc("NotImplementedError", cls, "run")]
    ELSE IF a.t = "int" /\ params["increment"].t = "int"
    THEN [ok |-> TRUE, v |-> IntV(a.n + params["increment"].n), err |-> NoExc]
    ELSE [ok |-> FALSE, v |-> NoneV, err |-> Exc("TypeError", cls, "run")]

(* ------------------- instantiate_class_from_name ----------------------- *)

Identifiers ==
    {"iris.io.class_configs.Algorithm", "nodes.Stub", "nodes.Adder",
     "nodes.BadDefault", "nodes.Missing", "missing.Adder"}

\* pydoc.locate: the class a dotted name leads to, or None.
locate(class_name) ==
    CASE class_name = "iris.io.class_configs.Algorithm" -> "Algorithm"
      [] class_name = "nodes.Stub" -> "Stub"
      [] class_name = "nodes.Adder" -> "Adder"
      [] class_name = "nodes.BadDefault" -> "BadDefault"
      [] OTHER -> "None"

\* The same, with a construction failure wrapped in the ValueError.
instantiate_wrapping(class_name, kwargs, heap, owner) ==
    LET object_class == locate(class_name)
        made == Algorithm__init__(object_class, kwargs, heap, owner)
    IN IF object_class = "None" \/ made.node.state = "failed"
       THEN [heap |-> heap,
             node |-> [NoNode EXCEPT !.state = "failed",
                         !.err = Exc("ValueError", class_name, "locate")]]
       ELSE made

\* The same, without the check of what locate returned: None is called.
instantiate_unchecked(class_name, kwargs, heap, owner) ==
    LET object_class == locate(class_name)
    IN IF object_class = "None"
       THEN [heap |-> heap,
             node |-> [NoNode EXCEPT !.state = "failed",
                         !.err = Exc("TypeError", "NoneType", "__call__")]]
       ELSE Algorithm__init__(object_class, kwargs, heap, owner)

instantiate_class_from_name(class_name, kwargs, heap, owner) ==
    LET object_class == locate(class_name)
    IN IF object_class = "None"
       THEN [heap |-> heap,
             node |-> [NoNode EXCEPT !.state = "failed",
                         !.err = Exc("ValueError", class_name, "locate")]]
       ELSE Algorithm__init__(object_class, kwargs, heap, owner)

(* ------------------------- Algorithm.execute --------------------------- *)

\* The arguments a node is called with.
Args == {IntV(5)}

NoHook == [owner |-> "", id |-> ""]
Event(ev, hook, arg) == [ev |-> ev, hook |-> hook, arg |-> arg]

\* The state of the current (or last) call of execute: where it is (pc), the
\* loop index (i), its arguments, the value run returned, the calls it has
\* made so far (trace), what it raised or returned to its caller, how it was
\* entered (entry) and how the call before it ended (prev).
NoCall ==
    [pc |-> "idle", i |-> 1, args |-> Absent, result |-> Absent,
     trace |-> <<>>, raised |-> NoExc, ret |-> Absent, entry |-> "", prev |-> ""]

\* A call that goes on where the call before it stopped.
execute_resuming(c, n, a, how) ==
    [pc |-> IF n > 0 THEN "start" ELSE "run", i |-> IF c.i <= n THEN c.i ELSE 1,
     args |-> a, result |-> Absent, trace |-> <<>>, raised |-> NoExc,
     ret |-> Absent, entry |-> how, prev |-> c.pc]

\* Entering execute on a node with n hooks: both loops and run are ahead.
execute_begin(c, n, a, how) ==
    [pc |-> IF n > 0 THEN "start" ELSE "run", i |-> 1,
     args |-> a, result |-> Absent, trace |-> <<>>, raised |-> NoExc,
     ret |-> Absent, entry |-> how, prev |-> c.pc]

\* The hook the k-th turn of each loop calls.
start_hook(cbs, k) == cbs[k]

end_hook_reversed(cbs, k) == cbs[Len(cbs) + 1 - k]
end_hook(cbs, k) == cbs[k]

\* What on_execute_end is called with.
end_argument_args(a, result) == a
end_argument(a, result) == result

\* An exception raised inside execute: nothing catches it, so the call ends
\* there (cont is the state the call would go on in).
swallow(c, e, cont) == cont
propagate(c, e, cont) == [c EXCEPT !.pc = "raised", !.raised = e]

\* One turn of the first loop: callback_func.on_execute_start(*args).
step_start(c, cbs, hooks) ==
    LET cb == start_hook(cbs, c.i)
        called == [c EXCEPT !.trace = Append(@, Event("on_execute_start", cb, c.args))]
        cont == IF c.i < Len(cbs)
                THEN [called EXCEPT !.i = c.i + 1]
                ELSE [called EXCEPT !.i = 1, !.pc = "run"]
    IN IF hooks[cb] = "raise_on_start"
       THEN propagate(called, Exc("HookError", cb.id, "on_execute_start"), cont)
       ELSE cont

\* result = self.run(*args)
step_run(c, cbs, node) ==
    LET r == run(node.cls, node.params, c.args)
        called == [c EXCEPT !.trace = Append(@, Event("run", NoHook, c.args))]
        got == [called EXCEPT !.result = r.v]
        cont == IF Len(cbs) > 0
                THEN [got EXCEPT !.i = 1, !.pc = "end"]
                ELSE [got EXCEPT !.pc = "returned", !.ret = r.v]
    IN IF r.ok THEN cont ELSE propagate(called, r.err, cont)

\* One turn of the second loop: callback_func.on_execute_end(result); after
\* the last turn, return result.
step_end(c, cbs, hooks) ==
    LET cb == end_hook(cbs, c.i)
        called == [c EXCEPT !.trace =
                     Append(@, Event("on_execute_end", cb, end_argument(c.args, c.result)))]
        cont == IF c.i < Len(cbs)
                THEN [called EXCEPT !.i = c.i + 1]
                ELSE [called EXCEPT !.pc = "returned", !.ret = c.result]
    IN IF hooks[cb] = "raise_on_end"
       THEN propagate(called, Exc("HookError", cb.id, "on_execute_end"), cont)
       ELSE cont

(* ------------------------------- state --------------------------------- *)

VARIABLES
    hooks,      \* heap: the behaviour of every hook object
    lists,      \* heap: the contents of every list
    node,       \* the instance made by direct construction
    located,    \* the instance made by instantiate_class_from_name
    given,      \* the arguments both constructions are given
    snapshot,   \* whether node was given `callbacks`, and what S held then
    outcome,    \* what the last operation on the configuration record did
    call        \* the current call of execute on node

vars == <<hooks, lists, node, located, given, snapshot, outcome, call>>

Heap == [lists |-> lists, hooks |-> hooks]

\* The hooks a list holds, by value: behaviour and aliasing pattern.
HookValues(ls, hs, ref) ==
    [k \in DOMAIN ls[ref] |-> [id |-> ls[ref][k].id, does |-> hs[ls[ref][k]]]]

NoOutcome == [op |-> "", name |-> "", err |-> NoExc, before |-> NoFields]
NoGiven == [name |-> "", kwargs |-> NoFields]
NoSnapshot == [has |-> FALSE, hooks |-> <<>>]

Kwargs(cbs, incs, unks) ==
    {[k \in Keys |-> CASE k = "callbacks" -> c [] k = "increment" -> n [] OTHER -> u] :
        c \in cbs, n \in incs, u \in unks}

InitHeap ==
    /\ hooks = [r \in HookRefs |-> IF r.owner = "caller" THEN "ok" ELSE "unalloc"]
    /\ lists = [l \in ListRefs |-> <<>>]

Idle == call.pc \in {"idle", "returned", "raised"}

(* --------------------- the caller and its sequence S -------------------- *)

CallerAppend(h) ==
    /\ Idle
    /\ Len(lists["S"]) < MaxHooks
    /\ lists' = [lists EXCEPT !["S"] = Append(@, [owner |-> "caller", id |-> h])]
    /\ UNCHANGED <<hooks, node, located, given, snapshot, outcome, call>>

CallerRemove(k) ==
    /\ Idle
    /\ k \in DOMAIN lists["S"]
    /\ lists' = [lists EXCEPT !["S"] =
                   SubSeq(@, 1, k - 1) \o SubSeq(@, k + 1, Len(@))]
    /\ UNCHANGED <<hooks, node, located, given, snapshot, outcome, call>>

CallerReplace(k, h) ==
    /\ Idle
    /\ k \in DOMAIN lists["S"]
    /\ lists["S"][k].id # h
    /\ lists' = [lists EXCEPT !["S"][k] = [owner |-> "caller", id |-> h]]
    /\ UNCHANGED <<hooks, node, located, given, snapshot, outcome, call>>

CallerReverse ==
    /\ Idle
    /\ LET q == lists["S"]
       IN /\ \E k \in DOMAIN q : q[k] # q[Len(q) + 1 - k]
          /\ lists' = [lists EXCEPT !["S"] = [k \in DOMAIN q |-> q[Len(q) + 1 - k]]]
    /\ UNCHANGED <<hooks, node, located, given, snapshot, outcome, call>>

CallerSetBehaviour(h, b) ==
    /\ Idle
    /\ hooks[[owner |-> "caller", id |-> h]] # b
    /\ hooks' = [hooks EXCEPT ![[owner |-> "caller", id |-> h]] = b]
    /\ UNCHANGED <<lists, node, located, given, snapshot, outcome, call>>

Caller ==
    \/ \E h \in HookIds : CallerAppend(h)
    \/ \E k \in 1..MaxHooks : CallerRemove(k)
    \/ \E k \in 1..MaxHooks, h \in HookIds : CallerReplace(k, h)
    \/ CallerReverse
    \/ \E h \in HookIds, b \in Behaviours : CallerSetBehaviour(h, b)

(* ------------------------- the node's lifecycle ------------------------- *)

LifeClasses == {"Stub", "Adder"}
LifeKwargs == Kwargs({Absent, ListV("S")}, {Absent, IntV(3)}, {Absent})

\* node = cls(**kwargs)
Construct(cls, kwargs) ==
    /\ node.state = "none"
    /\ LET made == Algorithm__init__(cls, kwargs, Heap, "node")
       IN /\ node' = made.node
          /\ lists' = made.heap.lists
          /\ hooks' = made.heap.hooks
    /\ snapshot' = IF kwargs["callbacks"] # Absent
                   THEN [has |-> TRUE, hooks |-> HookValues(lists, hooks, "S")]
                   ELSE NoSnapshot
    /\ UNCHANGED <<located, given, outcome, call>>

\* node.execute(a)
Execute(a) ==
    /\ Idle
    /\ node.state = "ok"
    /\ call' = execute_begin(call, Len(lists[node.callbacks]), a, "execute")
    /\ UNCHANGED <<hooks, lists, node, located, given, snapshot, outcome>>

\* node(a): __call__ returns self.execute(a)
DunderCall(a) ==
    /\ Idle
    /\ node.state = "ok"
    /\ call' = execute_begin(call, Len(lists[node.callbacks]), a, "__call__")
    /\ UNCHANGED <<hooks, lists, node, located, given, snapshot, outcome>>

OnExecuteStart ==
    /\ call.pc = "start"
    /\ call' = step_start(call, lists[node.callbacks], hooks)
    /\ UNCHANGED <<hooks, lists, node, located, given, snapshot, outcome>>

Run ==
    /\ call.pc = "run"
    /\ call' = step_run(call, lists[node.callbacks], node)
    /\ UNCHANGED <<hooks, lists, node, located, given, snapshot, outcome>>

OnExecuteEnd ==
    /\ call.pc = "end"
    /\ call' = step_end(call, lists[node.callbacks], hooks)
    /\ UNCHANGED <<hooks, lists, node, located, given, snapshot, outcome>>

Init ==
    /\ InitHeap
    /\ node = NoNode
    /\ located = NoNode
    /\ given = NoGiven
    /\ snapshot = NoSnapshot
    /\ outcome = NoOutcome
    /\ call = NoCall

Next ==
    \/ Caller
    \/ \E cls \in LifeClasses, kwargs \in LifeKwargs : Construct(cls, kwargs)
    \/ \E a \in Args : Execute(a)
    \/ \E a \in Args : DunderCall(a)
    \/ OnExecuteStart
    \/ Run
    \/ OnExecuteEnd

Spec == Init /\ [][Next]_vars

(* ------------- construction, the resolver and the record --------------- *)

BuildKwargs ==
    Kwargs({Absent, ListV("S")}, {Absent, IntV(3), StrV("3"), StrV("x")},
           {Absent, IntV(3)})

\* The hook sequences the caller may hold.
HookSeqs == UNION {[1..n -> CallerRefs] : n \in 0..MaxHooks}

\* The caller's objects before anything is constructed, and the arguments
\* both ways of constructing are given.
InitBuild ==
    /\ hooks \in {hs \in [HookRefs -> Behaviours \cup {"unalloc"}] :
                    /\ \A r \in HookRefs : r.owner # "caller" <=> hs[r] = "unalloc"
                    /\ hs[[owner |-> "caller", id |-> "h1"]] # "raise_on_end"
                    /\ hs[[owner |-> "caller", id |-> "h2"]] # "raise_on_start"}
    /\ lists \in {[l \in ListRefs |-> IF l = "S" THEN q ELSE <<>>] : q \in HookSeqs}
    /\ given \in [name : Identifiers, kwargs : BuildKwargs]
    /\ node = NoNode
    /\ located = NoNode
    /\ snapshot = NoSnapshot
    /\ outcome = NoOutcome
    /\ call = NoCall

\* node = T(**kwargs), T the class the name stands for
DirectConstruct ==
    /\ locate(given.name) # "None"
    /\ Construct(locate(given.name), given.kwargs)

\* located = instantiate_class_from_name(name, kwargs)
Instantiate ==
    /\ located.state = "none"
    /\ LET made == instantiate_class_from_name(given.name, given.kwargs, Heap, "located")
       IN /\ located' = made.node
          /\ lists' = made.heap.lists
          /\ hooks' = made.heap.hooks
    /\ UNCHANGED <<node, given, snapshot, outcome, call>>

AttrValues == {IntV(7)}

\* node.params.<name> = value
SetAttr(name, value) ==
    /\ node.state = "ok"
    /\ LET r == setattr(parameters_type(node.cls), node.params, name, value)
       IN /\ node' = [node EXCEPT !.params = r.fields]
          /\ outcome' = [op |-> "setattr", name |-> name, err |-> r.err,
                         before |-> node.params]
    /\ UNCHANGED <<hooks, lists, located, given, snapshot, call>>

\* node.params.serialize()
Serialize ==
    /\ node.state = "ok"
    /\ outcome' = [op |-> "serialize", name |-> "",
                   err |-> serialize(parameters_type(node.cls)), before |-> node.params]
    /\ UNCHANGED <<hooks, lists, node, located, given, snapshot, call>>

\* type(node.params).deserialize(data)
Deserialize(data) ==
    /\ node.state = "ok"
    /\ outcome' = [op |-> "deserialize", name |-> "",
                   err |-> deserialize(parameters_type(node.cls), data),
                   before |-> node.params]
    /\ UNCHANGED <<hooks, lists, node, located, given, snapshot, call>>

\* node.run(a), called directly
RunDirect(a) ==
    /\ node.state = "ok"
    /\ outcome' = [op |-> "run", name |-> "",
                   err |-> run(node.cls, node.params, a).err, before |-> node.params]
    /\ UNCHANGED <<hooks, lists, node, located, given, snapshot, call>>

NextBuild ==
    \/ DirectConstruct
    \/ Instantiate
    \/ \E name \in {"increment", "unknown"}, value \in AttrValues : SetAttr(name, value)
    \/ Serialize
    \/ \E data \in AttrValues : Deserialize(data)
    \/ \E a \in Args : RunDirect(a)

SpecBuild == InitBuild /\ [][NextBuild]_vars

(* =========================== the claims ================================ *)

NodeHooks == lists[node.callbacks]
NumHooks == Len(NodeHooks)
ValueOf(ref) == [id |-> ref.id, does |-> hooks[ref]]

\* The call the k-th position of a complete trace holds: which callback, on
\* which hook.
ExpectedCall(k) ==
    IF k <= NumHooks THEN <<"on_execute_start", NodeHooks[k]>>
    ELSE IF k = NumHooks + 1 THEN <<"run", NoHook>>
    ELSE <<"on_execute_end", NodeHooks[k - NumHooks - 1]>>

\* C1: a call of a node with N hooks that returns has made exactly these
\* calls, in this order: on_execute_start of hooks 1..N in registration
\* order, run once, on_execute_end of hooks 1..N in registration order.
C1_TraceOfReturnedCall ==
    call.pc = "returned" =>
        /\ Len(call.trace) = 2 * NumHooks + 1
        /\ \A k \in DOMAIN call.trace :
             <<call.trace[k].ev, call.trace[k].hook>> = ExpectedCall(k)

C1_Witness ==
    /\ call.pc = "returned"
    /\ NumHooks = 2
    /\ NodeHooks[1] # NodeHooks[2]

\* C2: a call node(A) that returns has passed exactly A to every
\* on_execute_start and to run, has passed the value run returned to every
\* on_execute_end, and has returned that same value, as execute(A) does.
C2_CallPassesArgsAndReturnsRunResult ==
    call.pc = "returned" /\ call.entry \in {"__call__", "execute"} =>
        LET r == run(node.cls, node.params, call.args)
        IN /\ r.ok
           /\ call.ret = r.v
           /\ \A k \in DOMAIN call.trace :
                call.trace[k].arg =
                    IF call.trace[k].ev = "on_execute_end" THEN r.v ELSE call.args

C2_Witness ==
    /\ call.pc = "returned"
    /\ call.entry = "__call__"
    /\ NumHooks = 2
    /\ call.ret = IntV(8)

\* Whether the call an event records raised.
Raises(e) ==
    \/ e.ev = "on_execute_start" /\ hooks[e.hook] = "raise_on_start"
    \/ e.ev = "on_execute_end" /\ hooks[e.hook] = "raise_on_end"
    \/ e.ev = "run" /\ ~run(node.cls, node.params, e.arg).ok

\* C3: fail fast. A callback or run that raises is the last call execute
\* makes: the exception reaches the caller of execute and nothing is
\* returned. So a raising on_execute_start of hook i is followed by no
\* later on_execute_start, no run and no on_execute_end, a raising run by
\* no on_execute_end, a raising on_execute_end of hook i by no later one.
C3_FailFast ==
    node.state = "ok" =>
        \A k \in DOMAIN call.trace :
            Raises(call.trace[k]) =>
                /\ k = Len(call.trace)
                /\ call.pc = "raised"
                /\ call.ret = Absent
                /\ call.raised.kind \in {"HookError", "NotImplementedError", "TypeError"}
                /\ call.raised.what = call.trace[k].ev
                /\ call.trace[k].ev # "run" => call.raised.name = call.trace[k].hook.id

C3_Witness ==
    /\ call.pc = "raised"
    /\ call.raised.what = "on_execute_end"
    /\ NumHooks = 2
    /\ Len(call.trace) = NumHooks + 2

\* C4: copy independence. Whatever the caller does to S or to its hook
\* objects after construction, the node's hook list holds what S held at
\* construction (nothing when `callbacks` was not given), and a call
\* dispatches those hooks in that order.
C4_CopyIndependence ==
    node.state = "ok" =>
        /\ HookValues(lists, hooks, node.callbacks) = snapshot.hooks
        /\ ~snapshot.has => NodeHooks = <<>>
        /\ \A k \in DOMAIN call.trace :
             k <= NumHooks => ValueOf(call.trace[k].hook) = snapshot.hooks[k]

C4_Witness ==
    /\ node.state = "ok"
    /\ Len(snapshot.hooks) = 2
    /\ lists["S"] = <<>>
    /\ \A k \in 1..2 :
         hooks[[owner |-> "caller", id |-> snapshot.hooks[k].id]] # snapshot.hooks[k].does
    /\ call.pc = "end"
    /\ call.i = 2

\* C10: execute leaves the node as it was constructed. No step of a call
\* changes the node, its hook list or its hooks, and every call, the first
\* or one that follows a call that raised, makes the calls of the protocol
\* from its beginning.
C10_ExecuteIsStateless ==
    /\ [][node.state = "ok" /\ call' # call =>
            /\ node' = node
            /\ lists'[node.callbacks] = lists[node.callbacks]
            /\ \A r \in Range(NodeHooks) : hooks'[r] = hooks[r]]_vars
    /\ [](node.state = "ok" =>
            /\ Len(call.trace) <= 2 * NumHooks + 1
            /\ \A k \in DOMAIN call.trace :
                 <<call.trace[k].ev, call.trace[k].hook>> = ExpectedCall(k))

C10_Witness ==
    /\ call.prev = "raised"
    /\ call.pc = "raised"
    /\ NumHooks = 2
    /\ NodeHooks[1] # NodeHooks[2]
    /\ Len(call.trace) = 2 * NumHooks + 1

\* The configuration record type of the constructed node.
NodeParamsType == parameters_type(node.cls)

\* C5: every attempt to write a field of a constructed configuration record
\* fails with the immutability error (pydantic's TypeError), and after any
\* number of attempts every field holds the value construction gave it.
C5_RecordIsImmutable ==
    node.state = "ok" =>
        /\ node.params = ParametersInit(NodeParamsType, node.forwarded).fields
        /\ outcome.op = "setattr" =>
             /\ outcome.err # NoExc
             /\ node.params = outcome.before
             /\ outcome.name \in Fields(NodeParamsType) =>
                  outcome.err = Exc("TypeError", NodeParamsType, outcome.name)

C5_Witness ==
    /\ node.state = "ok"
    /\ node.cls = "Adder"
    /\ outcome.op = "setattr"
    /\ outcome.name = "increment"
    /\ node.params["increment"] = IntV(3)

\* Whether the value field f of record type ptype would get from kw (the
\* supplied one, else the declared default) is rejected by the field's type.
Violates(ptype, kw, f) ==
    ~validate_field(FieldType(ptype, f),
                    IF kw[f] # Absent THEN kw[f] ELSE FieldDefault(ptype, f)).ok

C7_UnknownNameFails ==
    located.state # "none" /\ locate(given.name) = "None" =>
        /\ located.state = "failed"
        /\ located.err.kind = "ValueError"
        /\ located.err.name = given.name
        /\ lists["located"] = <<>>
        /\ \A r \in HookRefs : r.owner = "located" => hooks[r] = "unalloc"

C7_Witness ==
    /\ located.state = "failed"
    /\ given.name = "nodes.Missing"
    /\ given.kwargs["callbacks"] # Absent
    /\ given.kwargs["increment"] = IntV(3)
    /\ Len(lists["S"]) = 2

\* C8: for a name that leads to a class T, instantiate_class_from_name has
\* the outcome of T(**kwargs): an equivalent instance (same class, same
\* configuration record, same hooks by value), or the same failure.
C8_SameAsDirectConstruction ==
    /\ node.state # "none"
    /\ located.state # "none"
    /\ locate(given.name) # "None"
    => /\ located.state = node.state
       /\ located.cls = node.cls
       /\ located.params = node.params
       /\ located.err = node.err
       /\ node.state = "ok" =>
            /\ located.callbacks # node.callbacks
            /\ HookValues(lists, hooks, located.callbacks)
                 = HookValues(lists, hooks, node.callbacks)

C8_Witness ==
    /\ node.state = "ok"
    /\ located.state = "ok"
    /\ node.cls = "Adder"
    /\ node.params["increment"] = IntV(3)
    /\ Len(lists[located.callbacks]) = 2

\* C9: run on a node type that does not override it, and serialize and
\* deserialize on a record type that does not override them, fail with a
\* not-implemented error whose message names the concrete type.
C9_NamesConcreteType ==
    /\ outcome.op = "run" /\ ~OverridesRun(node.cls) =>
         outcome.err.kind = "NotImplementedError" /\ outcome.err.name = node.cls
    /\ outcome.op \in {"serialize", "deserialize"} =>
         outcome.err.kind = "RuntimeError" /\ outcome.err.name = NodeParamsType

====
